---- MODULE Spec2Model ----
(***************************************************************************)
(* PlantCareAI: the Flask application (src/app.py) and the chat-model      *)
(* loader (src/apps/AI_app/src/PlantCare_AI/utils/model_loader.py).        *)
(*                                                                         *)
(* Text is modelled as sequences of one-character strings, so that         *)
(* rsplit, lower, capitalize and secure_filename compute on characters.    *)
(***************************************************************************)
EXTENDS Integers, Sequences, FiniteSets, TLC

VARIABLES
    spc,          \* position of module start-up (app.py 55-77), then "serving"
    llm,          \* global llm: "unbound", "None" or the client handle
    model,        \* global model: "unbound", "None" or "keras"
    class_names,  \* global class_names: "unbound", "dict" or "list"
    log,          \* lines printed by the start-up except blocks
    users,        \* committed rows of the users table, in insertion order
    session,      \* per client: the Flask session cookie
    pc,           \* per client: position of the request in flight
    req,          \* per client: locals of the request in flight
    resp,         \* per client: the last response sent
    trace,        \* per client: pipeline steps done for the last /analyze
    uploads,      \* static/uploads: sanitized filename -> file content
    ld,           \* a ModelLoader under test: provider, environment, outcome
    form          \* the multipart form submitted in the upload specification

vars == <<spc, llm, model, class_names, log, users, session, pc, req, resp,
          trace, uploads, ld, form>>

-----------------------------------------------------------------------------
(* Bounds *)

\* longest filename submitted in the upload specification
MaxLen == 5
\* most rows the users table holds in the signup specification
MaxUsers == 2

Clients == {"c1", "c2"}

-----------------------------------------------------------------------------
(* Characters and strings *)

\* str.lower() on one character
Lower(ch) ==
    CASE ch = "P" -> "p"
      [] ch = "N" -> "n"
      [] ch = "G" -> "g"
      [] ch = "J" -> "j"
      [] ch = "C" -> "c"
      [] ch = "R" -> "r"
      [] OTHER -> ch

\* str.upper() on one character
Upper(ch) ==
    CASE ch = "p" -> "P"
      [] ch = "n" -> "N"
      [] ch = "g" -> "G"
      [] ch = "j" -> "J"
      [] ch = "c" -> "C"
      [] ch = "r" -> "R"
      [] OTHER -> ch

LowerStr(s) == [i \in 1..Len(s) |-> Lower(s[i])]

\* str.capitalize(): first character upper-cased, the rest lower-cased
Capitalize(s) == [i \in 1..Len(s) |-> IF i = 1 THEN Upper(s[i]) ELSE Lower(s[i])]

\* positions of ch in s
Positions(s, ch) == {i \in 1..Len(s) : s[i] = ch}

Max(S) == CHOOSE x \in S : \A y \in S : y <= x

\* s.rsplit('.', 1)[1]: the text after the last '.'
RSplitDot(s) == SubSeq(s, Max(Positions(s, ".")) + 1, Len(s))

ALLOWED_EXTENSIONS == {<<"p", "n", "g">>, <<"j", "p", "g">>, <<"j", "p", "e", "g">>}

allowed_file(filename) ==
    /\ Positions(filename, ".") # {}
    /\ LowerStr(RSplitDot(filename)) \in ALLOWED_EXTENSIONS

\* werkzeug secure_filename, step 1: path separators become spaces
SepToSpace(s) == [i \in 1..Len(s) |-> IF s[i] = "/" THEN " " ELSE s[i]]

\* step 2: "_".join(s.split()): runs of blanks collapse to one "_", blanks at
\* either end vanish
RECURSIVE JoinSplit(_, _)
JoinSplit(s, started) ==
    IF s = <<>> THEN <<>>
    ELSE IF Head(s) = " "
         THEN IF started /\ \E i \in 1..Len(s) : s[i] # " "
              THEN <<"_">> \o JoinSplit(Tail(s), FALSE)
              ELSE JoinSplit(Tail(s), started)
         ELSE <<Head(s)>> \o JoinSplit(Tail(s), TRUE)

\* step 3: characters outside [A-Za-z0-9_.-] are removed
FilenameChars == {"a", "b", "p", "n", "g", "j", "e", "i", "f",
                  "P", "N", "G", "J", "_", ".", "-"}

AsciiStrip(s) == SelectSeq(s, LAMBDA ch : ch \in FilenameChars)

\* step 4: str.strip("._")
RECURSIVE LStrip(_)
LStrip(s) ==
    IF s # <<>> /\ Head(s) \in {".", "_"} THEN LStrip(Tail(s)) ELSE s

RECURSIVE RStrip(_)
RStrip(s) ==
    IF s # <<>> /\ s[Len(s)] \in {".", "_"}
    THEN RStrip(SubSeq(s, 1, Len(s) - 1)) ELSE s

secure_filename(filename) ==
    RStrip(LStrip(AsciiStrip(JoinSplit(SepToSpace(filename), FALSE))))

-----------------------------------------------------------------------------
(* model_loader.py *)

Providers == {"groq", "openai", "anthropic"}

\* os.getenv of an API key: unset, set to the empty string, or set
KeyValues == {"unset", "empty", "set"}

\* What the process environment decides: which client libraries import,
\* the two API keys, and the configuration resource
Envs == [ChatGroq : BOOLEAN, ChatOpenAI : BOOLEAN,
         GROQ_API_KEY : KeyValues, OPENAI_API_KEY : KeyValues,
         cfgRead : BOOLEAN, cfgNames : SUBSET {"groq", "openai"}]

\* an outcome: a returned value or a raised exception; built tells whether a
\* chat client object was constructed
Returned(h) == [status |-> "ok", handle |-> h, exc |-> "", msg |-> "",
                built |-> h \in {"ChatGroq", "ChatOpenAI"}]
Raised(e, m) == [status |-> "raise", handle |-> "None", exc |-> e, msg |-> m, built |-> FALSE]
NoOutcome == [status |-> "none", handle |-> "None", exc |-> "", msg |-> "", built |-> FALSE]

\* common.read_yaml(CONFIG_PATH): the mapping, or an error when unreadable
read_yaml(env) ==
    IF env.cfgRead THEN Returned("config") ELSE Raised("ReadError", "config.yaml")

\* self.config["llm"][provider]["model_name"]
ConfigModelName(provider, env) ==
    IF provider \in env.cfgNames
    THEN Returned("model_name") ELSE Raised("KeyError", "model_name")

\* not api_key
NotKey(k) == k \in {"unset", "empty"}

\* load_llm without the test of the API key
load_llm_nokey(provider, env) ==
    IF provider = "groq" THEN
        IF ~env.ChatGroq THEN Raised("ImportError", "langchain_groq is not installed")
        ELSE IF ConfigModelName("groq", env).status = "raise"
        THEN ConfigModelName("groq", env)
        ELSE Returned("ChatGroq")
    ELSE IF provider = "openai" THEN
        IF ~env.ChatOpenAI THEN Raised("ImportError", "langchain_openai is not installed")
        ELSE IF ConfigModelName("openai", env).status = "raise"
        THEN ConfigModelName("openai", env)
        ELSE Returned("ChatOpenAI")
    ELSE Raised("ValueError", "Unsupported provider")

\* ModelLoader.load_llm
load_llm(provider, env) ==
    IF provider = "groq" THEN
        IF ~env.ChatGroq THEN Raised("ImportError", "langchain_groq is not installed")
        ELSE IF NotKey(env.GROQ_API_KEY) THEN Raised("ValueError", "GROQ_API_KEY missing")
        ELSE IF ConfigModelName("groq", env).status = "raise"
        THEN ConfigModelName("groq", env)
        ELSE Returned("ChatGroq")
    ELSE IF provider = "openai" THEN
        IF ~env.ChatOpenAI THEN Raised("ImportError", "langchain_openai is not installed")
        ELSE IF NotKey(env.OPENAI_API_KEY) THEN Raised("ValueError", "OPENAI_API_KEY missing")
        ELSE IF ConfigModelName("openai", env).status = "raise"
        THEN ConfigModelName("openai", env)
        ELSE Returned("ChatOpenAI")
    ELSE Raised("ValueError", "Unsupported provider")

\* ModelLoader(model_provider=provider): the Literal field is validated, then
\* model_post_init builds the ConfigLoader
ModelLoader(provider, env) ==
    IF provider \notin {"groq", "openai"}
    THEN Raised("ValidationError", "model_provider: Input should be groq or openai")
    ELSE IF read_yaml(env).status = "raise" THEN read_yaml(env)
    ELSE Returned("ModelLoader")

-----------------------------------------------------------------------------
(* app.py: module start-up, lines 55-77 *)

\* lines 58-63: try ModelLoader("groq").load_llm(), except: llm = None
StartupLLM(env) ==
    IF ModelLoader("groq", env).status = "raise"
    THEN [llm |-> "None", printed |-> {"Error loading LLM"}]
    ELSE IF load_llm("groq", env).status = "raise"
    THEN [llm |-> "None", printed |-> {"Error loading LLM"}]
    ELSE [llm |-> load_llm("groq", env).handle, printed |-> {}]

\* Where the classifier try block can fail, and what class_names.json holds
FailPoints == {"load_model", "open", "json_load", "convert", "none"}
JsonKinds == {"list", "dict"}

\* the classifier try block without the reset of model in its except branch
StartupModelNoReset(failAt, jsonKind) ==
    CASE failAt = "load_model" ->
            [model |-> "None", class_names |-> "unbound", printed |-> {"Error loading AI model"}]
      [] failAt \in {"open", "json_load"} ->
            [model |-> "keras", class_names |-> "unbound", printed |-> {"Error loading AI model"}]
      [] failAt = "convert" /\ jsonKind = "dict" ->
            [model |-> "keras", class_names |-> "dict", printed |-> {"Error loading AI model"}]
      [] OTHER ->
            [model |-> "keras", class_names |-> "list", printed |-> {}]

\* lines 69-77: load the artifact, read class_names.json, convert a dict to
\* a list; any exception prints and sets model = None
StartupModel(failAt, jsonKind) ==
    CASE failAt \in {"load_model", "open", "json_load"} ->
            [model |-> "None", class_names |-> "unbound", printed |-> {"Error loading AI model"}]
      [] failAt = "convert" /\ jsonKind = "dict" ->
            [model |-> "None", class_names |-> "dict", printed |-> {"Error loading AI model"}]
      [] OTHER ->
            [model |-> "keras", class_names |-> "list", printed |-> {}]

-----------------------------------------------------------------------------
(* app.py: helpers *)

\* bcrypt: the stored hash of a password, and its check
generate_password_hash(password) == <<"$2b$", password>>
check_password_hash(hash, password) == hash = generate_password_hash(password)

\* SELECT * FROM users WHERE email=%s; fetchone(): the first matching row
Matching(table, email) == {i \in 1..Len(table) : table[i].email = email}
Min(S) == CHOOSE x \in S : \A y \in S : x <= y
NoRow == [id |-> 0, name |-> "", email |-> "", password |-> <<>>]
fetchone(table, email) ==
    IF Matching(table, email) = {} THEN NoRow ELSE table[Min(Matching(table, email))]

\* the classifier's index -> name list, and what model.predict gives for
\* each decodable image (probabilities in percent)
CLASS_NAMES == <<"Tomato___Early_blight", "Tomato___healthy">>
Contents == {"blight", "healthy", "corrupt"}
Predictions(content) ==
    IF content = "blight" THEN <<92, 8>> ELSE <<5, 95>>

\* np.argmax: the first index holding the maximum; np.max: the maximum
NpMax(v) == Max({v[i] : i \in 1..Len(v)})
NpArgMax(v) == Min({i \in 1..Len(v) : v[i] = NpMax(v)})

\* cv2.imread: None for a missing or undecodable file
imread(dir, path) ==
    IF path \in DOMAIN dir /\ dir[path] # "corrupt" THEN dir[path] ELSE "None"

preprocess_image(dir, path) ==
    IF imread(dir, path) = "None" THEN "None" ELSE imread(dir, path)

Result(d, conf) == [status |-> "ok", disease |-> d, confidence |-> conf]
Raise(e) == [status |-> "raise", disease |-> e, confidence |-> 0]

\* predict_disease without the test of model
predict_disease_unguarded(m, names, dir, path) ==
    IF preprocess_image(dir, path) = "None" THEN Result("Processing failed", 0)
    ELSE IF names = "unbound" THEN Raise("NameError")
    ELSE IF names = "dict" THEN Raise("KeyError")
    ELSE Result(CLASS_NAMES[NpArgMax(Predictions(preprocess_image(dir, path)))],
                NpMax(Predictions(preprocess_image(dir, path))))

\* lines 100-106
predict_disease(m, names, dir, path) ==
    IF m = "None" THEN Result("Model not loaded", 0)
    ELSE IF preprocess_image(dir, path) = "None" THEN Result("Processing failed", 0)
    ELSE IF names = "unbound" THEN Raise("NameError")
    ELSE IF names = "dict" THEN Raise("KeyError")
    ELSE Result(CLASS_NAMES[NpArgMax(Predictions(preprocess_image(dir, path)))],
                NpMax(Predictions(preprocess_image(dir, path))))

\* What get_current_weather can return: the API's payload with or without
\* the "main" and "weather" keys (an error payload has neither)
Description == <<"r", "a", "i", "n">>
Temp == <<"3", "0">>
Payloads == [keys : SUBSET {"main", "weather"}]
NoPayload == [keys |-> {"none"}]

Unavailable == <<"Weather data unavailable">>
NoSummary == <<>>

\* line 235: the summary string, or the KeyError of reading a missing key
weather_summary(weather_data) ==
    IF "main" \in weather_data.keys
    THEN IF "weather" \in weather_data.keys
         THEN [status |-> "ok",
               text |-> Capitalize(Description) \o <<",", " ">> \o Temp \o <<"°", "C">>]
         ELSE [status |-> "raise", text |-> NoSummary]
    ELSE [status |-> "ok", text |-> Unavailable]

\* lines 238-242: PLANT_CARE_PROMPT | llm | StrOutputParser(), then invoke.
\* Piping None into a runnable raises TypeError before anything is invoked;
\* a failure of the remote call itself is left to the environment.
AdviceTexts == {"## Advice"}
chain_invoke(handle, text) ==
    IF handle = "None"
    THEN [status |-> "raise", advice |-> "", called |-> FALSE]
    ELSE [status |-> "ok", advice |-> text, called |-> TRUE]

-----------------------------------------------------------------------------
(* Requests *)

NoFile == [present |-> FALSE, filename |-> <<>>, content |-> "none"]
File(name, content) == [present |-> TRUE, filename |-> name, content |-> content]

NoReq == [filename |-> <<>>, content |-> "none", city |-> "", fullName |-> "",
          email |-> "", password |-> "", hashed |-> <<>>, disease |-> "", confidence |-> 0,
          weather_data |-> NoPayload, weather_summary |-> NoSummary, advice |-> ""]

Response(route, page, flash) == [route |-> route, page |-> page, flash |-> flash]
NoResponse == Response("none", "none", "")

LoggedOut == [logged_in |-> FALSE, user_id |-> 0, name |-> ""]
LoggedIn(row) == [logged_in |-> TRUE, user_id |-> row.id, name |-> row.name]

Reply(c, r) == resp' = [resp EXCEPT ![c] = r]


-----------------------------------------------------------------------------
(* Start-up actions *)

StartLLM ==
    /\ spc = "llm"
    /\ \E env \in Envs :
          /\ llm' = StartupLLM(env).llm
          /\ log' = log \cup StartupLLM(env).printed
    /\ spc' = "weather_tool"
    /\ UNCHANGED <<model, class_names, users, session, pc, req, resp, trace,
                   uploads, ld, form>>

\* line 66: weather_tool = WeatherForecastTool(api_key=...)
StartWeatherTool ==
    /\ spc = "weather_tool"
    /\ spc' = "model"
    /\ UNCHANGED <<llm, model, class_names, log, users, session, pc, req, resp,
                   trace, uploads, ld, form>>

StartModel ==
    /\ spc = "model"
    /\ \E failAt \in FailPoints, jsonKind \in JsonKinds :
          /\ model' = StartupModel(failAt, jsonKind).model
          /\ class_names' = StartupModel(failAt, jsonKind).class_names
          /\ log' = log \cup StartupModel(failAt, jsonKind).printed
    /\ spc' = "serving"
    /\ UNCHANGED <<llm, users, session, pc, req, resp, trace, uploads, ld, form>>

-----------------------------------------------------------------------------
(* Routes *)

\* login_required (lines 81-88)
\* a gate that lets every session through
login_required_open(sess) == TRUE
login_required(sess) == sess.logged_in

\* POST /signin and GET /signin (lines 180-210); dbFail: the query raises
Signin(c, method, email, password, dbFail) ==
    /\ spc = "serving" /\ pc[c] = "idle"
    /\ IF method = "GET" THEN
          /\ Reply(c, Response("signin", "signin_form", ""))
          /\ UNCHANGED <<session, req>>
       ELSE IF email = "" \/ password = "" THEN
          /\ Reply(c, Response("signin", "redirect_signin", "Email and password required!"))
          /\ UNCHANGED <<session, req>>
       ELSE IF dbFail THEN
          /\ Reply(c, Response("signin", "redirect_signin", "Error 3"))
          /\ UNCHANGED <<session, req>>
       ELSE IF /\ fetchone(users, email) # NoRow
               /\ check_password_hash(fetchone(users, email).password, password) THEN
          /\ session' = [session EXCEPT ![c] = LoggedIn(fetchone(users, email))]
          /\ req' = [req EXCEPT ![c] = [NoReq EXCEPT !.email = email, !.password = password]]
          /\ Reply(c, Response("signin", "redirect_home", "Welcome"))
       ELSE
          /\ Reply(c, Response("signin", "redirect_signin", "Invalid email or password!"))
          /\ UNCHANGED <<session, req>>
    /\ UNCHANGED <<spc, llm, model, class_names, log, users, pc, trace, uploads, ld, form>>

\* GET /logout (lines 212-215)
Logout(c) ==
    /\ spc = "serving" /\ pc[c] = "idle"
    /\ session' = [session EXCEPT ![c] = LoggedOut]
    /\ Reply(c, Response("logout", "redirect_signin", ""))
    /\ UNCHANGED <<spc, llm, model, class_names, log, users, pc, req, trace,
                   uploads, ld, form>>

\* the validation without the extension test
ValidUploadAnyType(file, city) ==
    /\ file.present /\ file.filename # <<>>
    /\ city # ""

\* line 224: file and allowed_file(file.filename) and city
ValidUpload(file, city) ==
    /\ file.present /\ file.filename # <<>>
    /\ allowed_file(file.filename)
    /\ city # ""

\* file.save(filepath): the file of that name is created or overwritten
Save(dir, name, content) ==
    [n \in DOMAIN dir \cup {name} |-> IF n = name THEN content ELSE dir[n]]

\* /analyze up to file.save (lines 217-227): the gate, the validation, the save
Analyze(c, method, file, city) ==
    /\ spc = "serving" /\ pc[c] = "idle"
    /\ IF ~login_required(session[c]) THEN
          /\ Reply(c, Response("analyze", "redirect_signin", "Please log in to access this page."))
          /\ trace' = [trace EXCEPT ![c] = <<>>]
          /\ UNCHANGED <<pc, req, uploads>>
       ELSE IF method = "GET" \/ ~ValidUpload(file, city) THEN
          /\ Reply(c, Response("analyze", "analyze_form", ""))
          /\ trace' = [trace EXCEPT ![c] = <<>>]
          /\ UNCHANGED <<pc, req, uploads>>
       ELSE
          /\ uploads' = Save(uploads, secure_filename(file.filename), file.content)
          /\ req' = [req EXCEPT ![c] = [NoReq EXCEPT
                        !.filename = secure_filename(file.filename),
                        !.content = file.content, !.city = city]]
          /\ trace' = [trace EXCEPT ![c] = <<"save">>]
          /\ pc' = [pc EXCEPT ![c] = "predict"]
          /\ Reply(c, Response("analyze", "pending", ""))
    /\ UNCHANGED <<spc, llm, model, class_names, log, users, session, ld, form>>

\* line 230: disease, confidence = predict_disease(filepath)
AnalyzePredict(c) ==
    /\ pc[c] = "predict"
    /\ LET r == predict_disease(model, class_names, uploads, req[c].filename) IN
          IF r.status = "raise" THEN
             /\ pc' = [pc EXCEPT ![c] = "idle"]
             /\ Reply(c, Response("analyze", "error500", r.disease))
             /\ trace' = [trace EXCEPT ![c] = Append(@, "predict")]
             /\ UNCHANGED req
          ELSE
             /\ req' = [req EXCEPT ![c].disease = r.disease, ![c].confidence = r.confidence]
             /\ trace' = [trace EXCEPT ![c] = Append(@, "predict")]
             /\ pc' = [pc EXCEPT ![c] = "weather"]
             /\ UNCHANGED resp
    /\ UNCHANGED <<spc, llm, model, class_names, log, users, session, uploads, ld, form>>

\* lines 234-235: one get_current_weather call, then the summary
AnalyzeWeather(c, payload) ==
    /\ pc[c] = "weather"
    /\ trace' = [trace EXCEPT ![c] = Append(@, "weather")]
    /\ IF weather_summary(payload).status = "raise" THEN
          /\ pc' = [pc EXCEPT ![c] = "idle"]
          /\ req' = [req EXCEPT ![c].weather_data = payload]
          /\ Reply(c, Response("analyze", "error500", "KeyError"))
       ELSE
          /\ req' = [req EXCEPT ![c].weather_data = payload,
                                ![c].weather_summary = weather_summary(payload).text]
          /\ pc' = [pc EXCEPT ![c] = "advice"]
          /\ UNCHANGED resp
    /\ UNCHANGED <<spc, llm, model, class_names, log, users, session, uploads, ld, form>>

\* lines 238-242: build the chain and invoke it
AnalyzeAdvice(c, text) ==
    /\ pc[c] = "advice"
    /\ IF chain_invoke(llm, text).status = "raise" THEN
          /\ pc' = [pc EXCEPT ![c] = "idle"]
          /\ Reply(c, Response("analyze", "error500", "TypeError"))
          /\ UNCHANGED <<req, trace>>
       ELSE
          /\ req' = [req EXCEPT ![c].advice = chain_invoke(llm, text).advice]
          /\ trace' = [trace EXCEPT ![c] = Append(@, "llm")]
          /\ pc' = [pc EXCEPT ![c] = "render"]
          /\ UNCHANGED resp
    /\ UNCHANGED <<spc, llm, model, class_names, log, users, session, uploads, ld, form>>

\* lines 244-250: render_template('analyze.html', ...)
AnalyzeRender(c) ==
    /\ pc[c] = "render"
    /\ trace' = [trace EXCEPT ![c] = Append(@, "render")]
    /\ pc' = [pc EXCEPT ![c] = "idle"]
    /\ Reply(c, Response("analyze", "analyze_result", ""))
    /\ UNCHANGED <<spc, llm, model, class_names, log, users, session, req,
                   uploads, ld, form>>

\* In-flight signups that passed the email check and hold a row to insert
InFlightSignups == {c \in Clients : pc[c] \in {"su_insert", "su_commit"}}

\* /signup up to the email check (lines 136-164); dbFail: the SELECT raises
Signup(c, method, fullName, email, password, confirm, dbFail) ==
    /\ spc = "serving" /\ pc[c] = "idle"
    /\ Len(users) + Cardinality(InFlightSignups) < MaxUsers
    /\ IF method = "GET" THEN
          /\ Reply(c, Response("signup", "signup_form", ""))
          /\ UNCHANGED <<pc, req>>
       ELSE IF fullName = "" \/ email = "" \/ password = "" \/ confirm = "" THEN
          /\ Reply(c, Response("signup", "redirect_signup", "All fields are required!"))
          /\ UNCHANGED <<pc, req>>
       ELSE IF password # confirm THEN
          /\ Reply(c, Response("signup", "redirect_signup", "Passwords do not match!"))
          /\ UNCHANGED <<pc, req>>
       ELSE IF dbFail THEN
          /\ Reply(c, Response("signup", "redirect_signup", "Error"))
          /\ UNCHANGED <<pc, req>>
       ELSE IF fetchone(users, email) # NoRow THEN
          /\ Reply(c, Response("signup", "redirect_signup", "Email already registered!"))
          /\ req' = [req EXCEPT ![c] = [NoReq EXCEPT !.email = email]]
          /\ UNCHANGED pc
       ELSE
          /\ req' = [req EXCEPT ![c] = [NoReq EXCEPT
                        !.fullName = fullName, !.email = email, !.password = password,
                        !.hashed = generate_password_hash(password)]]
          /\ pc' = [pc EXCEPT ![c] = "su_insert"]
          /\ Reply(c, Response("signup", "pending", ""))
    /\ UNCHANGED <<spc, llm, model, class_names, log, users, session, trace,
                   uploads, ld, form>>

\* lines 167-168: INSERT inside the request's own transaction; the row is
\* not visible to other connections before the commit
SignupInsert(c, dbFail) ==
    /\ pc[c] = "su_insert"
    /\ IF dbFail THEN
          /\ pc' = [pc EXCEPT ![c] = "idle"]
          /\ Reply(c, Response("signup", "redirect_signup", "Error"))
       ELSE
          /\ pc' = [pc EXCEPT ![c] = "su_commit"]
          /\ UNCHANGED resp
    /\ UNCHANGED <<spc, llm, model, class_names, log, users, session, req, trace,
                   uploads, ld, form>>

\* lines 169-173: commit, close, redirect to signin
SignupCommit(c, dbFail) ==
    /\ pc[c] = "su_commit"
    /\ pc' = [pc EXCEPT ![c] = "idle"]
    /\ IF dbFail THEN
          /\ Reply(c, Response("signup", "redirect_signup", "Error"))
          /\ UNCHANGED users
       ELSE
          /\ users' = Append(users, [id |-> Len(users) + 1, name |-> req[c].fullName,
                                     email |-> req[c].email, password |-> req[c].hashed])
          /\ Reply(c, Response("signup", "redirect_signin", "Account created successfully!"))
    /\ UNCHANGED <<spc, llm, model, class_names, log, session, req, trace,
                   uploads, ld, form>>

-----------------------------------------------------------------------------
(* The loader on its own: construct, then load *)

LdConstruct ==
    /\ ld.stage = "new"
    /\ ld' = [ld EXCEPT !.outcome = ModelLoader(ld.provider, ld.env),
                        !.stage = IF ModelLoader(ld.provider, ld.env).status = "ok"
                                  THEN "constructed" ELSE "failed"]
    /\ UNCHANGED <<spc, llm, model, class_names, log, users, session, pc, req,
                   resp, trace, uploads, form>>

LdLoad ==
    /\ ld.stage = "constructed"
    /\ ld' = [ld EXCEPT !.outcome = load_llm(ld.provider, ld.env), !.stage = "done"]
    /\ UNCHANGED <<spc, llm, model, class_names, log, users, session, pc, req,
                   resp, trace, uploads, form>>

-----------------------------------------------------------------------------
(* Inputs *)

Methods == {"GET", "POST"}
Emails == {"a@x.io", "b@x.io"}
Passwords == {"pw1", "pw2"}
Cities == {"", "Mumbai"}

AJpg == <<"a", ".", "j", "p", "g">>
SlashAJpg == <<"/", "a", ".", "j", "p", "g">>
AGif == <<"a", ".", "g", "i", "f">>

\* forms submitted to /analyze in the main specification
Files == {NoFile, File(AGif, "blight")}
            \cup {File(AJpg, k) : k \in Contents}
            \cup {File(SlashAJpg, k) : k \in Contents}

\* filenames submitted in the upload specification
UploadChars == {"p", "n", "g", "j", "e", "G", "."}
RECURSIVE SeqsUpTo(_, _)
SeqsUpTo(S, n) ==
    IF n = 0 THEN {<<>>}
    ELSE SeqsUpTo(S, n - 1) \cup
         {Append(s, x) : s \in {t \in SeqsUpTo(S, n - 1) : Len(t) = n - 1}, x \in S}
UploadForms ==
    [file : {NoFile} \cup {File(n, "blight") : n \in SeqsUpTo(UploadChars, MaxLen)},
     city : Cities]

NoForm == [file |-> NoFile, city |-> ""]
IdleLoader == [provider |-> "groq", env |-> CHOOSE e \in Envs : TRUE,
               stage |-> "idle", outcome |-> NoOutcome]
EmptyDir == [n \in {} |-> "none"]
Asha == [id |-> 1, name |-> "Asha", email |-> "a@x.io",
         password |-> generate_password_hash("pw1")]

-----------------------------------------------------------------------------
(* Specifications *)

ClientsInit ==
    /\ pc = [c \in Clients |-> "idle"]
    /\ req = [c \in Clients |-> NoReq]
    /\ resp = [c \in Clients |-> NoResponse]
    /\ trace = [c \in Clients |-> <<>>]
    /\ uploads = EmptyDir

Started ==
    /\ spc = "serving" /\ llm = "ChatGroq" /\ model = "keras"
    /\ class_names = "list" /\ log = {}

\* The process from its start: start-up, then the sign-in, logout and
\* /analyze requests of one session against a table holding one account
Init ==
    /\ spc = "llm" /\ llm = "unbound" /\ model = "unbound"
    /\ class_names = "unbound" /\ log = {}
    /\ users = <<Asha>>
    /\ session = [c \in Clients |-> LoggedOut]
    /\ ClientsInit
    /\ ld = IdleLoader /\ form = NoForm

Next ==
    \/ StartLLM
    \/ StartWeatherTool
    \/ StartModel
    \/ \E m \in Methods, e \in Emails \cup {""}, p \in Passwords \cup {""},
          dbFail \in BOOLEAN : Signin("c1", m, e, p, dbFail)
    \/ Logout("c1")
    \/ \E m \in Methods, f \in Files, city \in Cities : Analyze("c1", m, f, city)
    \/ AnalyzePredict("c1")
    \/ \E w \in Payloads : AnalyzeWeather("c1", w)
    \/ \E t \in AdviceTexts : AnalyzeAdvice("c1", t)
    \/ AnalyzeRender("c1")

Spec == Init /\ [][Next]_vars

\* The loader alone, for every provider and environment
InitLoader ==
    /\ Started
    /\ users = <<Asha>>
    /\ session = [c \in Clients |-> LoggedOut]
    /\ ClientsInit
    /\ ld \in [provider : Providers, env : Envs, stage : {"new"}, outcome : {NoOutcome}]
    /\ form = NoForm

NextLoader == LdConstruct \/ LdLoad

SpecLoader == InitLoader /\ [][NextLoader]_vars

\* One signed-in client submitting one form to POST /analyze
InitUpload ==
    /\ Started
    /\ users = <<Asha>>
    /\ session = [c \in Clients |-> IF c = "c1" THEN LoggedIn(Asha) ELSE LoggedOut]
    /\ ClientsInit
    /\ ld = IdleLoader
    /\ form \in UploadForms

NextUpload ==
    \/ resp["c1"] = NoResponse /\ Analyze("c1", "POST", form.file, form.city)
    \/ AnalyzePredict("c1")
    \/ \E w \in Payloads : AnalyzeWeather("c1", w)
    \/ \E t \in AdviceTexts : AnalyzeAdvice("c1", t)
    \/ AnalyzeRender("c1")

SpecUpload == InitUpload /\ [][NextUpload]_vars

\* Two signed-in clients, one worker each, posting valid forms to /analyze
InitRace ==
    /\ Started
    /\ users = <<Asha>>
    /\ session = [c \in Clients |-> LoggedIn(Asha)]
    /\ ClientsInit
    /\ ld = IdleLoader /\ form = NoForm

RaceFiles == {File(AJpg, "blight"), File(AJpg, "healthy"), File(SlashAJpg, "healthy"),
              File(AGif, "blight")}

NextRace ==
    \/ \E c \in Clients, f \in RaceFiles : Analyze(c, "POST", f, "Mumbai")
    \/ \E c \in Clients : AnalyzePredict(c)
    \/ \E c \in Clients, w \in Payloads : AnalyzeWeather(c, w)
    \/ \E c \in Clients, t \in AdviceTexts : AnalyzeAdvice(c, t)
    \/ \E c \in Clients : AnalyzeRender(c)

SpecRace == InitRace /\ [][NextRace]_vars

\* Signups of two clients against an empty table
InitSignup ==
    /\ Started
    /\ users = <<>>
    /\ session = [c \in Clients |-> LoggedOut]
    /\ ClientsInit
    /\ ld = IdleLoader /\ form = NoForm

NextSignup ==
    \/ \E c \in Clients, m \in Methods, n \in {"", "Asha"}, e \in Emails \cup {""},
          p \in {"", "pw1"}, q \in Passwords, dbFail \in BOOLEAN :
          Signup(c, m, n, e, p, q, dbFail)
    \/ \E c \in Clients, dbFail \in BOOLEAN : SignupInsert(c, dbFail)
    \/ \E c \in Clients, dbFail \in BOOLEAN : SignupCommit(c, dbFail)
    \/ \E c \in Clients, e \in Emails, p \in Passwords : Signin(c, "POST", e, p, FALSE)
    \/ \E c \in Clients : Logout(c)

SpecSignup == InitSignup /\ [][NextSignup]_vars

-----------------------------------------------------------------------------
(* Properties *)

Finished(c) == pc[c] = "idle" /\ resp[c].route = "analyze"
FullPipeline == <<"save", "predict", "weather", "llm", "render">>

\* C1: a valid authenticated POST /analyze served while llm is None ends with
\* the result page, the advice "AI advice unavailable." and no language-model
\* call.
C1_AdviceUnavailableWithoutLLM ==
    \A c \in Clients :
        (/\ llm = "None" /\ Finished(c)
         /\ req[c].weather_summary # NoSummary)
        => /\ resp[c].page = "analyze_result"
           /\ req[c].advice = "AI advice unavailable."
           /\ \A i \in 1..Len(trace[c]) : trace[c][i] # "llm"

\* C2: an /analyze request saves a file or runs any pipeline step only if the
\* session holds logged_in; logged_in appears only through a signin whose
\* password matches the stored hash and disappears only through logout;
\* every other /analyze request is redirected to signin and does nothing.
C2_LoginGate ==
    [][\A c \in Clients :
        /\ (trace'[c] # trace[c] /\ trace'[c] # <<>>) => session[c].logged_in
        /\ (uploads' # uploads /\ pc[c] = "idle" /\ pc'[c] # "idle") => session[c].logged_in
        /\ (/\ ~session[c].logged_in /\ pc[c] = "idle"
            /\ resp'[c] # resp[c] /\ resp'[c].route = "analyze")
           => /\ resp'[c].page = "redirect_signin"
              /\ trace'[c] = <<>> /\ uploads' = uploads /\ pc'[c] = "idle"
        /\ (session'[c].logged_in /\ ~session[c].logged_in)
           => /\ resp'[c].route = "signin"
              /\ \E i \in 1..Len(users) :
                    /\ users[i].email = req'[c].email
                    /\ users[i].password = <<"$2b$", req'[c].password>>
        /\ (resp'[c] # resp[c] /\ resp'[c].route = "logout") => ~session'[c].logged_in
        /\ (session[c].logged_in /\ ~session'[c].logged_in) => resp'[c].route = "logout"
    ]_vars

C2_Witness ==
    /\ session["c1"].logged_in
    /\ Len(trace["c1"]) >= 2
    /\ AJpg \in DOMAIN uploads

\* The claim's own reading of "extension in the allow-list": the name ends in
\* '.' followed by png, jpg or jpeg in any letter case
HasAllowedExtension(name) ==
    \E e \in {<<"p", "n", "g">>, <<"j", "p", "g">>, <<"j", "p", "e", "g">>} :
        /\ Len(name) > Len(e)
        /\ name[Len(name) - Len(e)] = "."
        /\ \A k \in 1..Len(e) :
              name[Len(name) - Len(e) + k] \in {e[k], Upper(e[k])}

InvalidForm(f) ==
    \/ ~f.file.present
    \/ ~HasAllowedExtension(f.file.filename)
    \/ f.city = ""

\* C3: an authenticated POST /analyze whose file is missing, whose extension
\* is not png, jpg or jpeg, or whose city is empty re-renders the blank form
\* and saves, classifies, fetches and generates nothing.
C3_InvalidFormDoesNothing ==
    InvalidForm(form) =>
        /\ pc["c1"] = "idle"
        /\ trace["c1"] = <<>>
        /\ uploads = EmptyDir
        /\ req["c1"] = NoReq
        /\ resp["c1"] \in {NoResponse, Response("analyze", "analyze_form", "")}

C3_Witness ==
    /\ resp["c1"] = Response("analyze", "analyze_form", "")
    /\ form.file.present /\ form.city # ""
    /\ Positions(form.file.filename, ".") # {}
    /\ Len(form.file.filename) = MaxLen

Predicted(c) == Len(trace[c]) >= 2

\* C4 as stated: an image that fails to decode is classified as
\* ("Processing failed", 0.0) whatever the state of the classifier model.
C4_ProcessingFailedAlways ==
    \A c \in Clients :
        (Predicted(c) /\ req[c].content = "corrupt")
        => req[c].disease = "Processing failed" /\ req[c].confidence = 0

\* C4 amended: an image that fails to decode is classified with confidence
\* 0.0 and without raising; the label is "Processing failed" when the model
\* is loaded and "Model not loaded" when it is not.
C4_UndecodableSentinel ==
    \A c \in Clients :
        (Predicted(c) /\ req[c].content = "corrupt")
        => /\ req[c].confidence = 0
           /\ req[c].disease = IF model = "None" THEN "Model not loaded"
                               ELSE "Processing failed"

C4_Witness ==
    /\ Predicted("c1") /\ req["c1"].content = "corrupt"
    /\ model = "keras" /\ req["c1"].disease = "Processing failed"

\* C5: when the current-weather payload lacks "main" or "weather", the
\* summary is "Weather data unavailable" and reading the payload does not
\* raise.
C5_MissingKeyUnavailable ==
    \A c \in Clients :
        (/\ req[c].weather_data \in Payloads
         /\ {"main", "weather"} \ req[c].weather_data.keys # {})
        => req[c].weather_summary = Unavailable

\* C6: a failure in the LLM try block leaves llm = None, a failure anywhere
\* in the classifier try block leaves model = None, start-up goes on to
\* serve, and predict_disease reads class_names only when it was loaded.
C6_StartupDegrades ==
    /\ "Error loading LLM" \in log => (llm = "None" /\ spc # "llm")
    /\ "Error loading AI model" \in log => (model = "None" /\ spc = "serving")
    /\ (spc = "serving" /\ model # "None") => class_names = "list"
    /\ \A c \in Clients :
          /\ resp[c].flash \notin {"NameError"}
          /\ ~(resp[c].page = "error500" /\ trace[c] = <<"save", "predict">>)
          /\ (Predicted(c) /\ req[c].disease \in {CLASS_NAMES[1], CLASS_NAMES[2]})
             => class_names = "list"

C6_Witness ==
    /\ spc = "serving"
    /\ log = {"Error loading LLM", "Error loading AI model"}
    /\ class_names = "dict"
    /\ Predicted("c1") /\ req["c1"].disease = "Model not loaded"

\* The three error kinds, as a caller tells them apart
ErrKind(o) ==
    CASE o.status # "raise" -> "none"
      [] o.exc = "ValidationError" -> "unsupported provider"
      [] o.exc = "ValueError" /\ o.msg = "Unsupported provider" -> "unsupported provider"
      [] o.exc = "ValueError" -> "missing credential"
      [] o.exc = "ImportError" -> "missing dependency"
      [] OTHER -> "other"

Unsupported == ld.provider \notin {"groq", "openai"}
LibOf(p, env) == IF p = "groq" THEN env.ChatGroq ELSE env.ChatOpenAI
KeyOf(p, env) == IF p = "groq" THEN env.GROQ_API_KEY ELSE env.OPENAI_API_KEY
LibMissing == ~Unsupported /\ ~LibOf(ld.provider, ld.env)
KeyAbsent == ~Unsupported /\ KeyOf(ld.provider, ld.env) = "unset"
KeyUnusable == ~Unsupported /\ KeyOf(ld.provider, ld.env) \in {"unset", "empty"}
ConfigRead == ld.env.cfgRead
ConfigNamesModel == ld.provider \in ld.env.cfgNames
LoadOver == ld.stage \in {"failed", "done"}
\* load_llm ran on a constructed loader, or the provider was refused
Loaded == ld.stage = "done" \/ (ld.stage = "failed" /\ Unsupported)

\* C7 as stated: unsupported provider, absent key and missing library each
\* give their own error, and a handle is returned exactly when none holds.
C7_OutcomeByCause ==
    Loaded =>
        /\ Unsupported => ErrKind(ld.outcome) = "unsupported provider"
        /\ KeyAbsent => ErrKind(ld.outcome) = "missing credential"
        /\ LibMissing => ErrKind(ld.outcome) = "missing dependency"
        /\ ld.outcome.status = "raise" => ~ld.outcome.built
        /\ (ld.outcome.status = "ok") <=> (~Unsupported /\ ~KeyAbsent /\ ~LibMissing)

\* C7 amended: the causes are checked in the order provider, configuration
\* read, library, key: the library error wins over the key error, an empty
\* key counts as missing, no failing load builds a client, and a handle is
\* returned exactly when no cause holds and the configuration names a model.
C7_OutcomeByCauseInOrder ==
    LoadOver =>
        /\ Unsupported => ErrKind(ld.outcome) = "unsupported provider"
        /\ (ConfigRead /\ LibMissing) => ErrKind(ld.outcome) = "missing dependency"
        /\ (ConfigRead /\ ~LibMissing /\ KeyUnusable)
           => ErrKind(ld.outcome) = "missing credential"
        /\ ld.outcome.status = "raise" => (~ld.outcome.built /\ ld.outcome.handle = "None")
        /\ (ld.outcome.status = "ok" /\ ld.outcome.built)
           <=> (/\ ~Unsupported /\ ~KeyUnusable /\ ~LibMissing
                /\ ConfigRead /\ ConfigNamesModel)
        /\ ld.outcome.status \in {"ok", "raise"}
        /\ ld.outcome.status = "ok" => ld.stage = "done"

C7_Witness ==
    /\ ld.stage = "done" /\ LibMissing /\ KeyAbsent
    /\ ld.outcome.exc = "ImportError"

\* C8: the users table never holds two accounts with the same email, and a
\* signup for a registered email inserts nothing and is redirected to the
\* signup form with a message.
C8_EmailUnique ==
    /\ \A i, j \in 1..Len(users) : i # j => users[i].email # users[j].email
    /\ \A c \in Clients :
          resp[c] = Response("signup", "redirect_signup", "Email already registered!")
          => pc[c] = "idle"

\* C9: every valid authenticated POST /analyze runs save, classify, weather,
\* language model and render once each, in that order, and ends with the
\* result page.
C9_PipelineOnceInOrder ==
    \A c \in Clients :
        /\ \A i \in 1..Len(trace[c]) : i <= 5 /\ trace[c][i] = FullPipeline[i]
        /\ (Finished(c) /\ trace[c] # <<>>)
           => (trace[c] = FullPipeline /\ resp[c].page = "analyze_result")

\* C10: the label and confidence of a request are those of the image the
\* same request uploaded, also when two uploads share a sanitized filename.
C10_OwnImageClassified ==
    \A c \in Clients :
        Predicted(c) =>
            LET own == predict_disease(model, class_names,
                           Save(EmptyDir, req[c].filename, req[c].content),
                           req[c].filename)
            IN  req[c].disease = own.disease /\ req[c].confidence = own.confidence

====
